---- MODULE Spec2Model ----
(***************************************************************************)
(* Quaker City Roleplay contraband backend (backend/server.js) and the     *)
(* drop simulation of its frontend (script.js).                            *)
(*                                                                         *)
(* Every Express handler of server.js runs to completion on Node's single  *)
(* thread (all file access is fs.*Sync), so a handler is one atomic        *)
(* action; "concurrent" requests are interleavings of whole handlers.      *)
(* A file write either replaces the snapshot or throws and leaves it.      *)
(* Write and read failures are modelled where the handler has a branch     *)
(* for them (the try/catch blocks of /drops, /drops/update and /prices);   *)
(* /admin/login has none, and its write of api_keys.json is taken to       *)
(* succeed.                                                                *)
(*                                                                         *)
(* Values that reach a handler were parsed from JSON by body-parser, so    *)
(* JSON.stringify followed by JSON.parse gives them back unchanged; a      *)
(* snapshot file is modelled by the parsed value it holds.                 *)
(***************************************************************************)
EXTENDS Integers, Sequences, FiniteSets, TLC

VARIABLES
    apiKeys,     \* server.js:68   let apiKeys (in-memory list of issued keys)
    keysFile,    \* server.js:35   api_keys.json, the list under "keys"
    dropsFile,   \* server.js:33   drops.json, the list under "drops"
    req,         \* the request the last handler served
    res,         \* the response it sent
    returned,    \* history: keys sent to a caller by /admin/login
    startKeys,   \* history: keys api_keys.json held at first startup
    beforeBoot,  \* history: keys returned before the latest restart
    lastSaved,   \* history: table of the latest /drops/update that succeeded
    nSaved,      \* history: number of successful updates (saturating)
    pricesFile,  \* server.js:34   prices.json: prices and lastUpdated
    now,         \* Date.now(), in milliseconds
    pres,        \* the response GET /prices sent last
    webhook,     \* server.js:122  whether DISCORD_WEBHOOK_URL is set
    consoleLog,  \* server.js:125  messages written by console.log
    sinkInbox,   \* bodies the Discord webhook accepted
    lreq,        \* the request POST /log served last
    lres,        \* the response it sent
    drops,       \* server.js:222  the frontend's let drops
    chosen       \* server.js:405  what simulateDrop logged last

gateVars == <<apiKeys, keysFile, req, res, returned, startKeys, beforeBoot,
              lastSaved, nSaved>>
priceVars == <<pricesFile, now, pres>>
logVars == <<webhook, consoleLog, sinkInbox, lreq, lres>>
clientVars == <<drops, chosen>>

vars == <<gateVars, dropsFile, priceVars, logVars, clientVars>>

----------------------------------------------------------------------------
(* Bounds of the model *)

NumKeys == 2        \* distinct UUIDs uuidv4() can produce
MaxCents == 4       \* highest price explored, in cents
UnitsPerCent == 2   \* resolution of a stored price
RandDen == 3        \* Math.random() takes the values 0/RandDen .. (RandDen-1)/RandDen
MaxNow == 12000     \* the clock stops here
MaxLog == 4         \* messages logged or forwarded
MaxLen == 3         \* longest drop table handed to simulateDrop
MaxWeight == 2      \* highest weight in such a table

(* Constants of the program *)

MaxPct == 3         \* server.js:158  maxPct = 0.03, in percent
DeltaCap == 8       \* server.js:159  Math.min(delta, 8)
MsPerSecond == 1000 \* server.js:153
StartMs == 1000     \* server.js:63   Date.now() when the process first starts

Range(s) == {s[i] : i \in 1..Len(s)}

NoKey == 0                      \* no x-api-key header and no body.apiKey
Keys == 1..NumKeys
Usernames == {"admin", "guest"}
Passwords == {"quakerfm", "letmein"}

Entry(id, weight) == [id |-> id, weight |-> weight]

\* tables a client submits: empty, one entry, the edit of the README's
\* walk-through, a negative weight, the same id twice
SubmittedTables ==
    { <<>>,
      <<Entry("cigs", 1)>>,
      <<Entry("cigs", 50), Entry("weed", 25)>>,
      <<Entry("cigs", -1), Entry("weed", 0)>>,
      <<Entry("cigs", 1), Entry("cigs", 2)>> }

\* req.body.drops: an array of entries, or something that is not an array
Payloads == {[array |-> TRUE, items |-> t] : t \in SubmittedTables}
              \cup {[array |-> FALSE, items |-> <<>>]}

\* server.js:43-52  the table ensureFile writes when drops.json is missing
DefaultDrops ==
    << Entry("cigs", 30), Entry("weed", 25), Entry("pills", 18),
       Entry("weap", 10), Entry("chips", 10), Entry("gold", 7) >>

NoPayload == [array |-> FALSE, items |-> <<>>]
NoReq == [op |-> "none", username |-> "", password |-> "", key |-> NoKey,
          payload |-> NoPayload]
Reply(status, apiKey, table) ==
    [status |-> status, apiKey |-> apiKey, drops |-> table]

----------------------------------------------------------------------------
(* Access control gate and drop table *)

KeySet == Range(apiKeys)

\* server.js:80  uuidv4(): a version-4 UUID, taken never to repeat
uuidv4 == Keys \ (Range(apiKeys) \cup Range(keysFile))

\* server.js:71-73  the list persistKeys writes to api_keys.json
\* fault variant: the list is not written
persistKeysStale(keys) == keysFile
persistKeys(keys) == keys

\* server.js:79
\* fault variant: the password is not compared
CredentialsLax(username, password) == username = "admin"
Credentials(username, password) ==
    username = "admin" /\ password = "quakerfm"

\* server.js:77-87  POST /admin/login
Login(username, password) ==
    /\ req' = [NoReq EXCEPT !.op = "login", !.username = username,
                            !.password = password]
    /\ IF Credentials(username, password)
       THEN \E apiKey \in uuidv4 :
              /\ apiKeys' = Append(apiKeys, apiKey)
              /\ keysFile' = persistKeys(apiKeys')
              /\ res' = Reply(200, apiKey, <<>>)
              /\ returned' = returned \cup {apiKey}
       ELSE /\ res' = Reply(401, NoKey, <<>>)
            /\ UNCHANGED <<apiKeys, keysFile, returned>>
    /\ UNCHANGED <<dropsFile, startKeys, beforeBoot, lastSaved, nSaved>>
    /\ UNCHANGED <<priceVars, logVars, clientVars>>

\* server.js:101  req.headers['x-api-key'] || req.body.apiKey
Provided(headerKey, bodyKey) ==
    IF headerKey # NoKey THEN headerKey ELSE bodyKey

\* server.js:102  provided && apiKeys.includes(provided)
\* fault variant: any non-empty key passes
AuthorizedAnyKey(provided) == provided # NoKey
Authorized(provided) == provided # NoKey /\ provided \in Range(apiKeys)

\* server.js:106  payload && Array.isArray(payload.drops)
\* fault variant: no Array.isArray check
ValidPayloadLax(payload) == TRUE
ValidPayload(payload) == payload.array

\* server.js:110  the list written to drops.json
\* fault variant: the submitted entries are added to the stored ones
SavedDropsMerged(payload) == dropsFile \o payload.items
SavedDrops(payload) == payload.items

\* server.js:100-115  POST /drops/update
UpdateDrops(headerKey, bodyKey, payload, writeOk) ==
    LET provided == Provided(headerKey, bodyKey) IN
    /\ req' = [NoReq EXCEPT !.op = "update_drops", !.key = provided,
                            !.payload = payload]
    /\ IF ~Authorized(provided)
       THEN /\ res' = Reply(401, NoKey, <<>>)
            /\ UNCHANGED <<dropsFile, lastSaved, nSaved>>
       ELSE IF ~ValidPayload(payload)
       THEN /\ res' = Reply(400, NoKey, <<>>)
            /\ UNCHANGED <<dropsFile, lastSaved, nSaved>>
       ELSE IF writeOk
       THEN /\ dropsFile' = SavedDrops(payload)
            /\ res' = Reply(200, NoKey, payload.items)
            /\ lastSaved' = payload.items
            /\ nSaved' = IF nSaved < 2 THEN nSaved + 1 ELSE nSaved
       ELSE /\ res' = Reply(500, NoKey, <<>>)
            /\ UNCHANGED <<dropsFile, lastSaved, nSaved>>
    /\ UNCHANGED <<apiKeys, keysFile, returned, startKeys, beforeBoot>>
    /\ UNCHANGED <<priceVars, logVars, clientVars>>

\* server.js:90-97  GET /drops
GetDrops(readOk) ==
    /\ req' = [NoReq EXCEPT !.op = "get_drops"]
    /\ res' = IF readOk THEN Reply(200, NoKey, dropsFile)
                        ELSE Reply(500, NoKey, <<>>)
    /\ UNCHANGED <<apiKeys, keysFile, dropsFile, returned, startKeys,
                   beforeBoot, lastSaved, nSaved>>
    /\ UNCHANGED <<priceVars, logVars, clientVars>>

\* server.js:38-68  the process starts again: the files exist, so ensureFile
\* leaves them, and apiKeys is read back from api_keys.json
Restart ==
    /\ apiKeys' = keysFile
    /\ req' = [NoReq EXCEPT !.op = "restart"]
    /\ res' = Reply(0, NoKey, <<>>)
    /\ beforeBoot' = returned
    /\ UNCHANGED <<keysFile, dropsFile, returned, startKeys, lastSaved, nSaved>>
    /\ UNCHANGED <<priceVars, logVars, clientVars>>

----------------------------------------------------------------------------
(* Price drift: GET /prices *)

\* A price is a whole number of units, UnitsPerCent units to the cent, so
\* that a stored price need not be a whole number of cents.  The arithmetic
\* of the handler is done exactly, over a common denominator.
PriceIds == {"cigs", "weed"}
MaxPrice == MaxCents * UnitsPerCent
Draws == 0..(RandDen - 1)               \* Math.random() = u / RandDen
Elapsed == {500, 2500, 9000}            \* milliseconds between requests

Max(a, b) == IF a >= b THEN a ELSE b
Min(a, b) == IF a <= b THEN a ELSE b

\* server.js:153  Math.max(1, Math.floor((now - (lastUpdated || now)) / 1000))
Delta(t, lastUpdated) ==
    LET last == IF lastUpdated = 0 THEN t ELSE lastUpdated
    IN  Max(1, (t - last) \div MsPerSecond)

\* server.js:158-160  b * (1 + pctChange), as a fraction over PctDen:
\* pctChange = (u / RandDen * maxPct * 2 - maxPct) * Math.min(delta, 8)
PctDen == 100 * RandDen
Drifted(b, u, delta) ==
    b * (PctDen + (2 * MaxPct * u - MaxPct * RandDen) * Min(delta, DeltaCap))

\* server.js:160  Math.max(0.01, ...), still over PctDen
Floored(n) == Max(UnitsPerCent * PctDen, n)

\* server.js:161  Math.round(newVal * 100) / 100: the nearest cent, halves up
RoundToCent(n) ==
    LET d == PctDen * UnitsPerCent
    IN  ((2 * n + d) \div (2 * d)) * UnitsPerCent

\* server.js:156-161  the new price of one item
NewPrice(b, u, delta) == RoundToCent(Floored(Drifted(b, u, delta)))

NoPrices == [k \in {} |-> 0]
PriceReply(status, prices, timestamp) ==
    [status |-> status, prices |-> prices, timestamp |-> timestamp]

\* server.js:147-175  GET /prices, served dt milliseconds after the last
\* request; draw[k] is the Math.random() of item k
GetPrices(dt, draw, readOk, writeOk) ==
    LET t == now + dt
        base == pricesFile.prices
        delta == Delta(t, pricesFile.lastUpdated)
        newPrices == [k \in DOMAIN base |-> NewPrice(base[k], draw[k], delta)]
    IN  /\ t <= MaxNow
        /\ \A k \in DOMAIN base : newPrices[k] <= MaxPrice
        /\ now' = t
        /\ IF ~readOk
           THEN /\ pres' = PriceReply(500, NoPrices, 0)
                /\ UNCHANGED pricesFile
           ELSE /\ pres' = PriceReply(200, newPrices, t)
                /\ pricesFile' = IF writeOk
                                 THEN [prices |-> newPrices, lastUpdated |-> t]
                                 ELSE pricesFile
        /\ UNCHANGED <<gateVars, dropsFile, logVars, clientVars>>

----------------------------------------------------------------------------
(* Log relay: POST /log *)

Messages == {"", "bought cigs", "drop"}
SinkOutcomes == {"ok", "rejected", "unreachable"}

LogReply(status, success, forwarded) ==
    [status |-> status, success |-> success, forwarded |-> forwarded]

\* server.js:118-144  POST /log; sink is what the webhook does with the
\* POST when one is sent: r.ok, a response that is not ok, or fetch throws
RelayLog(message, sink) ==
    /\ Len(consoleLog) < MaxLog /\ Len(sinkInbox) < MaxLog
    /\ lreq' = [op |-> "relay_log", message |-> message,
                sink |-> IF message # "" /\ webhook THEN sink ELSE "unused"]
    /\ IF message = ""
       THEN /\ lres' = LogReply(400, FALSE, FALSE)
            /\ UNCHANGED <<consoleLog, sinkInbox>>
       ELSE IF ~webhook
       THEN /\ consoleLog' = Append(consoleLog, message)
            /\ lres' = LogReply(200, TRUE, FALSE)
            /\ UNCHANGED sinkInbox
       ELSE IF sink = "ok"
       THEN /\ sinkInbox' = Append(sinkInbox, <<"QCR Log: ", message>>)
            /\ lres' = LogReply(200, TRUE, TRUE)
            /\ UNCHANGED consoleLog
       ELSE /\ lres' = LogReply(500, FALSE, FALSE)
            /\ UNCHANGED <<consoleLog, sinkInbox>>
    /\ UNCHANGED <<webhook, gateVars, dropsFile, priceVars, clientVars>>

----------------------------------------------------------------------------
(* Drop simulation of the frontend *)

DropIds == {"cigs", "weed"}
Tables ==
    UNION {[1..n -> [id : DropIds, weight : 0..MaxWeight]] : n \in 0..MaxLen}

NoEntry == Entry("", 0)

\* server.js:395,399  d.weight || 0
\* fault variant: d.weight || 1
WeightOrOne(d) == IF d.weight = 0 THEN 1 ELSE d.weight
Weight(d) == d.weight

\* server.js:395  drops.reduce((s,i)=>s+(i.weight||0),0)
RECURSIVE SumWeights(_, _)
SumWeights(t, i) ==
    IF i > Len(t) THEN 0 ELSE Weight(t[i]) + SumWeights(t, i + 1)
Total(t) == SumWeights(t, 1)

\* server.js:397  let chosen = drops[0], undefined for an empty array
First(t) == IF Len(t) = 0 THEN NoEntry ELSE t[1]

\* fault variant: the loop without its break, which keeps the last entry
\* met with r <= 0
RECURSIVE LastHit(_, _, _, _)
LastHit(t, i, r, c) ==
    IF i > Len(t)
    THEN c
    ELSE LET rest == r - Weight(t[i]) * RandDen
         IN  LastHit(t, i + 1, rest, IF rest <= 0 THEN t[i] ELSE c)
ScanNoBreak(t, i, r) == LastHit(t, i, r, First(t))

\* server.js:397-404  the loop, with r carried as r * RandDen
RECURSIVE Scan(_, _, _)
Scan(t, i, r) ==
    IF i > Len(t)
    THEN First(t)
    ELSE LET rest == r - Weight(t[i]) * RandDen
         IN  IF rest <= 0 THEN t[i] ELSE Scan(t, i + 1, rest)

\* server.js:396-404  r = Math.random() * total, Math.random() = u / RandDen
Select(t, u) == Scan(t, 1, u * Total(t))

\* server.js:362-386  fetchDrops against a configured backend:
\* data.drops || [] on success, drops left alone on failure
Fetched(fetchOk) == IF fetchOk THEN dropsFile ELSE drops

\* server.js:391  !drops || !drops.length
\* fault variant: the table is never found empty
NoDropsNever(t) == FALSE
NoDrops(t) == Len(t) = 0

\* what simulateDrop did: the entry it chose, if it chose, and what it
\* passed to logActivity
Outcome(entry, picked, u, log) ==
    [entry |-> entry, picked |-> picked, draw |-> u, log |-> log]

\* server.js:389-407  simulateDrop
SimulateDrop(fetchOk, u) ==
    /\ drops' = Fetched(fetchOk)
    /\ chosen' = IF NoDrops(drops')
                 THEN Outcome(NoEntry, FALSE, u, "No drops configured.")
                 ELSE Outcome(Select(drops', u), TRUE, u, "Simulated Drop")
    /\ UNCHANGED <<gateVars, dropsFile, priceVars, logVars>>

----------------------------------------------------------------------------
(* Initial states and specifications *)

\* server.js:53-64  the prices ensureFile writes (two of the six items)
SeedPrices == [k \in PriceIds |-> IF k = "cigs" THEN 1200 * UnitsPerCent
                                                 ELSE 7500 * UnitsPerCent]

\* server.js:43-68  first start: drops.json is created with the default
\* table; api_keys.json is created empty or is there from an earlier run
InitGate ==
    /\ keysFile \in {<<>>, <<NumKeys>>}
    /\ apiKeys = keysFile
    /\ req = NoReq
    /\ res = Reply(0, NoKey, <<>>)
    /\ returned = {}
    /\ startKeys = Range(keysFile)
    /\ beforeBoot = {}
    /\ lastSaved = DefaultDrops
    /\ nSaved = 0

InitPricesSeed ==
    /\ now = StartMs
    /\ pricesFile = [prices |-> SeedPrices, lastUpdated |-> StartMs]
    /\ pres = PriceReply(0, NoPrices, 0)

InitLog ==
    /\ webhook \in BOOLEAN
    /\ consoleLog = <<>>
    /\ sinkInbox = <<>>
    /\ lreq = [op |-> "none", message |-> "", sink |-> "unused"]
    /\ lres = LogReply(0, FALSE, FALSE)

InitClient ==
    /\ drops = <<>>
    /\ chosen = Outcome(NoEntry, FALSE, 0, "")

Init ==
    /\ InitGate /\ dropsFile = DefaultDrops
    /\ InitPricesSeed /\ InitLog /\ webhook = FALSE /\ InitClient

Next ==
    \/ \E u \in Usernames, p \in Passwords : Login(u, p)
    \/ \E h \in Keys \cup {NoKey}, b \in Keys \cup {NoKey}, pl \in Payloads,
          w \in BOOLEAN : UpdateDrops(h, b, pl, w)
    \/ \E r \in BOOLEAN : GetDrops(r)
    \/ Restart

\* the gate and the drop table
Spec == Init /\ [][Next]_vars

\* prices.json holds any positive prices, written by hand or by the server
InitPrices ==
    /\ InitGate /\ keysFile = <<>> /\ dropsFile = DefaultDrops
    /\ InitLog /\ webhook = FALSE /\ InitClient
    /\ now = StartMs
    /\ pricesFile \in [prices : [PriceIds -> 1..MaxPrice],
                       lastUpdated : {StartMs}]
    /\ pres = PriceReply(0, NoPrices, 0)

NextPrices ==
    \E dt \in Elapsed, draw \in [PriceIds -> Draws], r \in BOOLEAN,
       w \in BOOLEAN : GetPrices(dt, draw, r, w)

SpecPrices == InitPrices /\ [][NextPrices]_vars

InitRelay ==
    /\ InitGate /\ keysFile = <<>> /\ dropsFile = DefaultDrops
    /\ InitPricesSeed /\ InitLog /\ InitClient

NextRelay == \E m \in Messages, s \in SinkOutcomes : RelayLog(m, s)

SpecRelay == InitRelay /\ [][NextRelay]_vars

\* drops.json holds any table an authorized update can have stored
InitSelector ==
    /\ InitGate /\ keysFile = <<>> /\ dropsFile \in Tables
    /\ InitPricesSeed /\ InitLog /\ webhook = FALSE /\ InitClient

NextSelector == \E f \in BOOLEAN, u \in Draws : SimulateDrop(f, u)

SpecSelector == InitSelector /\ [][NextSelector]_vars

----------------------------------------------------------------------------
(* Properties of the gate and the drop table *)

CorrectLogin(r) == r.op = "login" /\ r.username = "admin" /\ r.password = "quakerfm"
KnownKey(k) == k # NoKey /\ k \in KeySet
Issued == returned \cup startKeys

\* C1: an update_drops call whose key is absent or not in the KeySet is
\* answered 401 Unauthorized and leaves drops.json as it was, whatever the
\* payload.
C1_UnauthorizedLeavesDrops ==
    [][ (req'.op = "update_drops" /\ ~KnownKey(req'.key))
          => (res'.status = 401 /\ dropsFile' = dropsFile) ]_vars

\* a rejected call that carried a well-formed table other than the stored
\* one, made while some key was valid
C1_Witness ==
    /\ req.op = "update_drops" /\ res.status = 401
    /\ req.key # NoKey /\ KeySet # {}
    /\ req.payload.array /\ req.payload.items # dropsFile

C4_LastWriterWins ==
    (req.op = "get_drops" /\ res.status = 200)
      => res.drops = (IF nSaved = 0 THEN DefaultDrops ELSE lastSaved)

\* a read after at least two successful updates
C4_Witness ==
    /\ req.op = "get_drops" /\ res.status = 200
    /\ nSaved = 2 /\ res.drops # DefaultDrops /\ res.drops # <<>>

\* C5 as stated: with a valid key, a payload that is not an array, or an
\* empty array, is answered 400 and leaves drops.json as it was.
C5_AsStated ==
    [][ (req'.op = "update_drops" /\ KnownKey(req'.key)
           /\ (~req'.payload.array \/ req'.payload.items = <<>>))
          => (res'.status = 400 /\ dropsFile' = dropsFile) ]_vars

\* C5 amended: with a valid key, a payload that is not an array is answered
\* 400 and leaves drops.json as it was; an empty array is accepted like any
\* other array: it is written and success is reported, unless the write
\* fails (500, drops.json as it was).
C5_OnlyNonArrayRejected ==
    [][ /\ (req'.op = "update_drops" /\ KnownKey(req'.key)
              /\ ~req'.payload.array)
             => (res'.status = 400 /\ dropsFile' = dropsFile)
        /\ (req'.op = "update_drops" /\ KnownKey(req'.key)
              /\ req'.payload.array /\ req'.payload.items = <<>>)
             => \/ res'.status = 200 /\ dropsFile' = <<>>
                \/ res'.status = 500 /\ dropsFile' = dropsFile ]_vars

\* a non-array payload rejected after a table had been saved
C5_Witness ==
    /\ req.op = "update_drops" /\ res.status = 400
    /\ KnownKey(req.key) /\ ~req.payload.array /\ nSaved > 0

UniqueIds(t) == \A i, j \in 1..Len(t) : t[i].id = t[j].id => i = j
WeightsNonNegative(t) == \A i \in 1..Len(t) : t[i].weight \in Nat

\* C6: the persisted table never holds two entries with one id, and every
\* weight is a non-negative integer.
C6_DropTableWellFormed ==
    UniqueIds(dropsFile) /\ WeightsNonNegative(dropsFile)

----------------------------------------------------------------------------
(* Properties of the log relay, the price drift and the drop simulation *)

\* C7: a relay_log call with a non-empty message whose sink is unreachable
\* or rejects the message is still answered with success: accepted, not
\* forwarded.
C7_SinkFailureStillAccepted ==
    (lreq.op = "relay_log" /\ lreq.message # ""
       /\ lreq.sink \in {"rejected", "unreachable"})
      => (lres.status = 200 /\ lres.success /\ ~lres.forwarded)

\* C8: after a get_prices call that returned a price table, prices.json
\* holds the returned prices, lastUpdated is the returned timestamp and the
\* item ids are the ones it had, also when the write of the snapshot fails.
C8_ReturnedPricesPersisted ==
    pres.status = 200
      => /\ pricesFile.prices = pres.prices
         /\ pricesFile.lastUpdated = pres.timestamp
         /\ DOMAIN pricesFile.prices = PriceIds

WholeCents(p) == p >= UnitsPerCent /\ p % UnitsPerCent = 0

\* C9: starting from prices > 0, after get_prices has returned a table,
\* every returned and every persisted price is at least one cent and a
\* whole number of cents.
C9_PricesWholeCents ==
    pres.status = 200
      => /\ \A k \in DOMAIN pres.prices : WholeCents(pres.prices[k])
         /\ \A k \in DOMAIN pricesFile.prices : WholeCents(pricesFile.prices[k])

AllZero(t) == \A i \in 1..Len(t) : t[i].weight = 0

\* C10: on a non-empty table whose weights are all 0, simulateDrop picks
\* the first entry, whatever the random draw.
C10_AllZeroPicksFirst ==
    (chosen.picked /\ Len(drops) > 0 /\ AllZero(drops))
      => chosen.entry = drops[1]

\* a pick from an all-zero table of distinct entries with a draw above 0
C10_Witness ==
    /\ chosen.picked /\ Len(drops) >= 2 /\ AllZero(drops)
    /\ drops[1] # drops[2] /\ chosen.draw > 0 /\ chosen.entry = drops[1]

\* C11: on an empty table simulateDrop refuses: it reports that no drops
\* are configured (the InvalidConfiguration outcome) and chooses no entry.
C11_EmptyTableRefused ==
    (chosen.log # "" /\ Len(drops) = 0)
      => /\ chosen.log = "No drops configured."
         /\ ~chosen.picked
         /\ chosen.entry = NoEntry

\* a simulation that fetched the empty table drops.json holds
C11_Witness ==
    /\ chosen.log = "No drops configured." /\ ~chosen.picked
    /\ dropsFile = <<>> /\ drops = <<>> /\ chosen.draw > 0

RECURSIVE WeightSum(_, _)
WeightSum(t, i) == IF i > Len(t) THEN 0 ELSE t[i].weight + WeightSum(t, i + 1)
PositiveTotal(t) ==
    /\ Len(t) > 0
    /\ \A i \in 1..Len(t) : t[i].weight \in Nat
    /\ WeightSum(t, 1) > 0

\* C12 as stated: on a table of non-negative weights with total T > 0,
\* for every draw r in [0, T), r = 0 included, the chosen entry has a
\* weight > 0.
C12_AsStated ==
    (chosen.picked /\ PositiveTotal(drops)) => chosen.entry.weight > 0

\* C12 amended: on such a table, for every draw r with 0 < r < T the chosen
\* entry has a weight > 0; for r = 0 the chosen entry is the first entry of
\* the table, whatever its weight.
C12_ZeroWeightOnlyAtZeroDraw ==
    (chosen.picked /\ PositiveTotal(drops))
      => /\ chosen.draw > 0 => chosen.entry.weight > 0
         /\ chosen.draw = 0 => chosen.entry = drops[1]

\* a draw above 0 on a table that opens with a zero-weight entry and holds
\* another one further on
C12_Witness ==
    /\ chosen.picked /\ PositiveTotal(drops) /\ chosen.draw > 0
    /\ Len(drops) >= 3 /\ drops[1].weight = 0 /\ drops[3].weight = 0
    /\ chosen.entry.weight > 0

====
